---- MODULE Spec2Model ----
(***************************************************************************)
(* A model of rthumb: the rthumbd thumbnail daemon (bus surface, dispatch  *)
(* loop, batch loop, blocking chunk workers, XDG thumbnail cache) and the  *)
(* rthumb provider registry.                                               *)
(***************************************************************************)
EXTENDS Integers, Sequences, FiniteSets, Bags, TLC

(***************************************************************************)
(* Bounds of the model.                                                    *)
(***************************************************************************)
\* Queue calls made by clients in one behaviour of Spec.
MaxCalls == 1
\* Dequeue calls made, and Queue calls made next to them
DeqCalls == 1
\* Queue calls in one behaviour of SpecBus and SpecWrap.
BusCalls == 2
\* Queue calls in one behaviour of SpecLive.
LiveCalls == 3
\* Capacity given to each of the three mpsc channels (CHANNEL_CAPACITY, 256
\* in the program, scaled down).
ChannelCap == 1

(***************************************************************************)
(* Small helpers.                                                          *)
(***************************************************************************)
None == "none"

Min(a, b) == IF a <= b THEN a ELSE b

Max(a, b) == IF a >= b THEN a ELSE b

Range(s) == {s[i] : i \in 1..Len(s)}

Reverse(s) == [i \in 1..Len(s) |-> s[Len(s) + 1 - i]]

RECURSIVE SeqToBag(_)
SeqToBag(s) ==
    IF s = <<>> THEN EmptyBag ELSE SeqToBag(Tail(s)) (+) SetToBag({Head(s)})

RECURSIVE Flatten(_)
Flatten(ss) == IF ss = <<>> THEN <<>> ELSE Head(ss) \o Flatten(Tail(ss))

(***************************************************************************)
(* ThumbFlavor (dbus.rs).                                                  *)
(***************************************************************************)
ThumbFlavor == {"Normal", "Large", "XLarge", "XXLarge"}

\* ThumbFlavor::all
ThumbFlavorAll == <<"Normal", "Large", "XLarge", "XXLarge">>

\* impl fmt::Display for ThumbFlavor
Display(f) ==
    CASE f = "Normal"  -> "normal"
      [] f = "Large"   -> "large"
      [] f = "XLarge"  -> "x-large"
      [] f = "XXLarge" -> "xx-large"

\* a TryFrom that falls back to Normal for an unknown name
TryFromLax(value) ==
    CASE value = "normal"   -> "Normal"
      [] value = "large"    -> "Large"
      [] value = "x-large"  -> "XLarge"
      [] value = "xx-large" -> "XXLarge"
      [] OTHER              -> "Normal"

\* impl TryFrom<&str> for ThumbFlavor; None is Err(InvalidInput)
TryFrom(value) ==
    CASE value = "normal"   -> "Normal"
      [] value = "large"    -> "Large"
      [] value = "x-large"  -> "XLarge"
      [] value = "xx-large" -> "XXLarge"
      [] OTHER              -> None

\* ThumbFlavor::dimension
Dimension(f) ==
    CASE f = "Normal"  -> 128
      [] f = "Large"   -> 256
      [] f = "XLarge"  -> 512
      [] f = "XXLarge" -> 1024

\* Thumbnailer1::get_flavors
GetFlavors == [i \in 1..Len(ThumbFlavorAll) |-> Display(ThumbFlavorAll[i])]

(***************************************************************************)
(* f64 modification times.  A source mtime lies in [2^30, 2^31) seconds,   *)
(* where an f64 has 22 fractional bits: the value is sec + frac / 2^22.    *)
(***************************************************************************)
FracUnits == 4194304

\* floor and remainder of a * b / c without leaving 32-bit integers
\* (needs a + 2 * c < 2^31)
RECURSIVE MulDivRem(_, _, _)
MulDivRem(a, b, c) ==
    IF b = 0 THEN [q |-> 0, r |-> 0]
    ELSE LET h == MulDivRem(a, b \div 2, c)
             t == 2 * h.r + (b % 2) * a
         IN  [q |-> 2 * h.q + (t \div c), r |-> t % c]

\* a * b / c rounded to nearest, ties to even (IEEE 754 default rounding)
MulDivRound(a, b, c) ==
    LET d == MulDivRem(a, b, c)
    IN  IF 2 * d.r > c \/ (2 * d.r = c /\ d.q % 2 = 1) THEN d.q + 1 ELSE d.q

\* st_mtime() as f64 + st_mtime_nsec() as f64 / 1e9
F64OfStat(sec, nsec) ==
    LET k == MulDivRound(nsec, 8192, 1953125)
    IN  IF k = FracUnits THEN [sec |-> sec + 1, frac |-> 0]
        ELSE [sec |-> sec, frac |-> k]

\* format!("{:.6}", x): decimal text with six fractional digits
FormatMTime(x) ==
    LET m == MulDivRound(x.frac, 15625, 65536)
    IN  IF m = 1000000 THEN [sec |-> x.sec + 1, micro |-> 0]
        ELSE [sec |-> x.sec, micro |-> m]

\* text.parse::<f64>() of a decimal with six fractional digits
ParseMTime(t) ==
    LET k == MulDivRound(t.micro, 65536, 15625)
    IN  IF k = FracUnits THEN [sec |-> t.sec + 1, frac |-> 0]
        ELSE [sec |-> t.sec, frac |-> k]

(***************************************************************************)
(* ThumbFsMeta (xdg.rs).                                                   *)
(***************************************************************************)
\* the f64 NaN, which "NaN".parse::<f64>() gives
NaN == [sec |-> 0, frac |-> -1]

\* == on f64: NaN is equal to nothing
F64Eq(x, y) == x # NaN /\ y # NaN /\ x = y

\* a PartialEq that compares the sizes always
MetaEqStrict(a, b) ==
    /\ a.uri = b.uri
    /\ F64Eq(a.mtime_nsec, b.mtime_nsec)
    /\ a.size = b.size

\* impl PartialEq for ThumbFsMeta
MetaEq(a, b) ==
    /\ a.uri = b.uri
    /\ F64Eq(a.mtime_nsec, b.mtime_nsec)
    /\ (a.size = 0 \/ b.size = 0 \/ a.size = b.size)

(***************************************************************************)
(* u32 handles.  TLC integers are 32-bit signed, so a u32 is kept as two   *)
(* 16-bit limbs; fetch_add wraps modulo 2^32 as AtomicU32 does.            *)
(***************************************************************************)
Limb == 65536

U32(n) == [hi |-> n \div Limb, lo |-> n % Limb]

\* AtomicU32::fetch_add(1): the value stored after the call
U32Succ(h) ==
    IF h.lo + 1 < Limb THEN [hi |-> h.hi, lo |-> h.lo + 1]
    ELSE [hi |-> (h.hi + 1) % Limb, lo |-> 0]

U32Lt(a, b) == a.hi < b.hi \/ (a.hi = b.hi /\ a.lo < b.lo)

(***************************************************************************)
(* URIs, the source files behind them, and cache paths (xdg.rs).           *)
(***************************************************************************)
UriA == "file:///a.png"
UriB == "file:///b.jpg"
UriHttp == "http://x.com/y.png"
UriMissing == "file:///missing.png"
UriBad == "file:///bad.png"
UriRel == "not a url"

\* url::Url::parse(uri)?.to_file_path(): the local path, or the error text
UrlToFilePath(uri) ==
    CASE uri = UriA       -> [ok |-> TRUE, path |-> "/a.png"]
      [] uri = UriB       -> [ok |-> TRUE, path |-> "/b.jpg"]
      [] uri = UriMissing -> [ok |-> TRUE, path |-> "/missing.png"]
      [] uri = UriBad     -> [ok |-> TRUE, path |-> "/bad.png"]
      [] uri = UriHttp    -> [ok |-> FALSE, err |-> "not a file://"]
      [] OTHER            -> [ok |-> FALSE, err |-> "relative URL without a base"]

\* uri_hash: lower-case hex of md5(uri)
UriHash(uri) ==
    CASE uri = UriA       -> "66b461f829fc9aebb15aeedbd504581e"
      [] uri = UriB       -> "0da3a3f73768dc21cd7bddd07f1cac92"
      [] uri = UriHttp    -> "47fa8e2d62ed4a8c82b3689d24489309"
      [] uri = UriMissing -> "12face1c54dcaac114a248507753f402"
      [] uri = UriBad     -> "85df4160f0b3a39d4eded061e9c03516"
      [] OTHER            -> "d5038c8695ffcbffed05378ae103d831"

\* ThumbFlavor::cache_path: <cache_dir>/<flavor name>
CachePath(f) == Display(f)

\* destination_filename: <dir>/<md5(uri)>.png
DestinationFilename(dir, uri) == <<dir, UriHash(uri), "png">>

\* temp_filename: <dir>/<md5(uri)>.tmp<id>
TempFilename(dir, uri, id) == <<dir, UriHash(uri), "tmp", id>>

\* The source files on disk: st_mtime, st_mtime_nsec, st_size, and whether
\* the image crate can decode the file.
SourceFiles ==
    [p \in {"/a.png", "/b.jpg", "/bad.png"} |->
        CASE p = "/a.png"  -> [sec |-> 1700000000, nsec |-> 500000000,
                               size |-> 4096, decodable |-> TRUE]
          [] p = "/b.jpg"  -> [sec |-> 1700000000, nsec |-> 123456789,
                               size |-> 2048, decodable |-> TRUE]
          [] p = "/bad.png" -> [sec |-> 1700000000, nsec |-> 0,
                               size |-> 16, decodable |-> FALSE]]

ENOENT == "No such file or directory (os error 2)"

\* ThumbFsMeta::from(uri, path): ok is FALSE for the io::Error of
\* std::fs::metadata
ThumbFsMetaFrom(src, uri, path) ==
    IF path \notin DOMAIN src THEN [ok |-> FALSE]
    ELSE [ok |-> TRUE,
          meta |-> [uri |-> uri,
                    mtime_nsec |-> F64OfStat(src[path].sec, src[path].nsec),
                    size |-> src[path].size]]

(***************************************************************************)
(* Cache files.  A file (inode) holds the parts of the PNG written since   *)
(* it was last truncated: 1 = signature, IHDR and the three tEXt chunks,   *)
(* 2 = IDAT, 3 = IEND.  text is the provenance carried by part 1; garbage  *)
(* marks bytes that are not a PNG at all.                                  *)
(***************************************************************************)
Parts == {1, 2, 3}

\* A tEXt value that is absent is Absent, one that does not parse is Unusable.
Absent == -1
Unusable == -2

NoText == [uri |-> None, mtime |-> [sec |-> Absent, micro |-> 0], size |-> Absent]

EmptyFile == [parts |-> {}, text |-> NoText, garbage |-> FALSE]

\* the tEXt chunks write_thumb_with_original_metadata emits for meta
TextOf(meta) ==
    [uri |-> meta.uri, mtime |-> FormatMTime(meta.mtime_nsec), size |-> meta.size]

CompleteFile(text) == [parts |-> Parts, text |-> text, garbage |-> FALSE]

Complete(file) == ~file.garbage /\ file.parts = Parts

\* get_thumb_original_metadata(path): ok is FALSE for any Err (open,
\* read_info, missing uri, missing mtime_nsec)
GetThumbOriginalMetadata(dir, files, path) ==
    IF path \notin DOMAIN dir THEN [ok |-> FALSE]
    ELSE LET file == files[dir[path]]
         IN  IF file.garbage \/ ~({1, 2} \subseteq file.parts) THEN [ok |-> FALSE]
             ELSE IF file.text.uri = None \/ file.text.mtime.sec < 0
                  THEN [ok |-> FALSE]
             ELSE [ok |-> TRUE,
                   meta |-> [uri |-> file.text.uri,
                             mtime_nsec |-> ParseMTime(file.text.mtime),
                             size |-> IF file.text.size < 0 THEN 0
                                      ELSE file.text.size]]

\* one write(2) of part k of the PNG for text through a descriptor on file
WritePart(file, k, text) ==
    IF file.garbage \/ (file.parts # {} /\ file.text # text)
    THEN [file EXCEPT !.garbage = TRUE, !.parts = @ \cup {k}]
    ELSE [parts |-> file.parts \cup {k}, text |-> text, garbage |-> FALSE]

\* itertools chunks(n) of a sequence
RECURSIVE Chunks(_, _)
Chunks(s, n) ==
    IF s = <<>> THEN <<>>
    ELSE IF Len(s) <= n THEN <<s>>
    ELSE <<SubSeq(s, 1, n)>> \o Chunks(SubSeq(s, n + 1, Len(s)), n)

\* a pairing that keeps every uri, the missing MIME types left empty
ZipLongest(uris, mime_types) ==
    [i \in 1..Len(uris) |->
        [uri |-> uris[i],
         mime_type |-> IF i <= Len(mime_types) THEN mime_types[i] ELSE ""]]

\* uris.into_iter().zip(mime_types).map(MediaRef).collect(): zip ends with
\* the shorter of the two
Zip(uris, mime_types) ==
    [i \in 1..Min(Len(uris), Len(mime_types)) |->
        [uri |-> uris[i], mime_type |-> mime_types[i]]]

(***************************************************************************)
(* State of the daemon.                                                    *)
(***************************************************************************)
VARIABLES
    next_handle,  \* Thumbnailer1.next_handle
    pending,      \* the Queue call suspended in req_tx.send (<<>> when none)
    replies,      \* history: the method replies, in call order
    req_ch,       \* req_tx / req_rx
    job_ch,       \* job_tx / job_rx
    result_ch,    \* result_tx / result_rx
    dpc,          \* dispatch loop: "select" or "send_job"
    djob,         \* the job the dispatch loop holds while in job_tx.send
    mpc,          \* batch loop of main: "recv", "mkdir", "await", "finished"
    mjob,         \* the job the batch loop is serving (<<>> when none)
    chunks,       \* the spawn_blocking tasks of that job, one per chunk
    chunk_size,   \* RTHUMB_CHUNK_SIZE
    source,       \* the source files
    dirs,         \* the flavor directories that exist under the cache root
    cache,        \* cache directory entries: path -> inode
    inodes,       \* inode -> file content
    emitted,      \* history: the bus signals, in emission order
    outcomes,     \* history: the result of every process_item call made
    reg_pc,       \* process_request: "idle", "running" or "returned"
    reg_result,   \* what process_request returned last
    providers,    \* the providers registered with the builder, in order
    answers,      \* history: the replies to Dequeue and GetSupported calls
    unit          \* the last call of a function taken on its own, and its result

vars == <<next_handle, pending, replies, req_ch, job_ch, result_ch, dpc, djob,
          mpc, mjob, chunks, chunk_size, source, dirs, cache, inodes, emitted,
          outcomes, reg_pc, reg_result, providers, answers, unit>>

bus == <<next_handle, pending, replies, req_ch>>
disp == <<dpc, djob, emitted>>
batch == <<mpc, mjob>>
disk == <<dirs, cache, inodes>>
env == <<chunk_size, source>>
reg == <<reg_pc, reg_result>>
side == <<providers, answers, unit>>

Started(h) == [sig |-> "Started", handle |-> h]
Ready(h, uris) == [sig |-> "Ready", handle |-> h, uris |-> uris]
Error(h, uri, message) ==
    [sig |-> "Error", handle |-> h, uri |-> uri, code |-> 1, message |-> message]
Finished(h) == [sig |-> "Finished", handle |-> h]

(***************************************************************************)
(* Bus methods (dbus.rs).                                                  *)
(***************************************************************************)
\* a next_handle that returns the value after the increment
NextHandleAfter == U32Succ(next_handle)

\* Thumbnailer1::next_handle: fetch_add returns the previous value
NextHandle == next_handle

\* Thumbnailer1::queue up to req_tx.send; calls are serialised by &mut self
Queue(uris, mime_types, flavor, limit) ==
    /\ pending = <<>>
    /\ Len(replies) < limit
    /\ IF TryFrom(flavor) = None
       THEN /\ replies' = Append(replies,
                   [flavor |-> flavor, result |-> "InvalidArgs"])
            /\ UNCHANGED <<next_handle, pending>>
       ELSE /\ next_handle' = U32Succ(next_handle)
            /\ pending' = <<[handle |-> NextHandle, flavor |-> TryFrom(flavor),
                             medias |-> Zip(uris, mime_types), arg |-> flavor,
                             waited |-> Len(req_ch) = ChannelCap,
                             uris |-> uris, mime_types |-> mime_types]>>
            /\ UNCHANGED replies
    /\ UNCHANGED <<side, reg, req_ch, disp, job_ch, result_ch, batch, chunks, env, disk,
                   outcomes>>

\* a Queue that uses try_send: a full channel is Err(Failed) at once
QueueSendTry ==
    /\ pending # <<>>
    /\ IF Len(req_ch) < ChannelCap
       THEN /\ req_ch' = Append(req_ch, [handle |-> pending[1].handle,
                                         flavor |-> pending[1].flavor,
                                         medias |-> pending[1].medias])
            /\ replies' = Append(replies,
                   [flavor |-> pending[1].arg, result |-> "Ok",
                    handle |-> pending[1].handle, medias |-> pending[1].medias,
                    waited |-> pending[1].waited,
                    uris |-> pending[1].uris,
                    mime_types |-> pending[1].mime_types])
       ELSE /\ replies' = Append(replies,
                   [flavor |-> pending[1].arg, result |-> "Failed",
                    handle |-> pending[1].handle, medias |-> pending[1].medias,
                    waited |-> pending[1].waited,
                    uris |-> pending[1].uris,
                    mime_types |-> pending[1].mime_types])
            /\ UNCHANGED req_ch
    /\ pending' = <<>>
    /\ UNCHANGED <<side, reg, next_handle, disp, job_ch, result_ch, batch, chunks, env,
                   disk, outcomes>>

\* Thumbnailer1::queue from req_tx.send(job).await to Ok(handle): the send
\* completes when the channel has room (the receiver is never dropped);
\* waited records that the call found the channel full when it got here
QueueSend ==
    /\ pending # <<>>
    /\ Len(req_ch) < ChannelCap
    /\ req_ch' = Append(req_ch, [handle |-> pending[1].handle,
                                 flavor |-> pending[1].flavor,
                                 medias |-> pending[1].medias])
    /\ replies' = Append(replies,
           [flavor |-> pending[1].arg, result |-> "Ok",
            handle |-> pending[1].handle, medias |-> pending[1].medias,
            waited |-> pending[1].waited,
                    uris |-> pending[1].uris,
                    mime_types |-> pending[1].mime_types])
    /\ pending' = <<>>
    /\ UNCHANGED <<side, reg, next_handle, disp, job_ch, result_ch, batch, chunks, env,
                   disk, outcomes>>

(***************************************************************************)
(* Dispatch loop (create_and_listen).                                      *)
(***************************************************************************)
\* a dispatch loop that forwards the job without emitting Started
DispatchRecvJobSilent ==
    /\ dpc = "select"
    /\ req_ch # <<>>
    /\ djob' = <<Head(req_ch)>>
    /\ req_ch' = Tail(req_ch)
    /\ dpc' = "send_job"
    /\ UNCHANGED <<side, reg, next_handle, pending, replies, job_ch, result_ch, batch,
                   chunks, env, disk, outcomes, emitted>>

\* select! branch Some(job) = req_rx.recv(): emit Started, go on to send
DispatchRecvJob ==
    /\ dpc = "select"
    /\ req_ch # <<>>
    /\ emitted' = Append(emitted, Started(Head(req_ch).handle))
    /\ djob' = <<Head(req_ch)>>
    /\ req_ch' = Tail(req_ch)
    /\ dpc' = "send_job"
    /\ UNCHANGED <<side, reg, next_handle, pending, replies, job_ch, result_ch, batch,
                   chunks, env, disk, outcomes>>

\* job_tx.send(job).await completes once the channel has room
DispatchSendJob ==
    /\ dpc = "send_job"
    /\ Len(job_ch) < ChannelCap
    /\ job_ch' = Append(job_ch, djob[1])
    /\ djob' = <<>>
    /\ dpc' = "select"
    /\ UNCHANGED <<side, reg, bus, emitted, result_ch, batch, chunks, env, disk, outcomes>>

\* the signal the loop emits for a Reply
SignalOf(res) ==
    CASE res.kind = "Ready"    -> Ready(res.handle, res.uris)
      [] res.kind = "Finished" -> Finished(res.handle)
      [] res.kind = "Error"    -> Error(res.handle, res.uri, res.message)

\* select! branch Some(res) = result_rx.recv()
DispatchRecvReply ==
    /\ dpc = "select"
    /\ result_ch # <<>>
    /\ emitted' = Append(emitted, SignalOf(Head(result_ch)))
    /\ result_ch' = Tail(result_ch)
    /\ UNCHANGED <<side, reg, bus, dpc, djob, job_ch, batch, chunks, env, disk, outcomes>>

(***************************************************************************)
(* Batch loop (main) and the blocking chunk tasks.                         *)
(***************************************************************************)
NoMeta == [uri |-> None, mtime_nsec |-> [sec |-> 0, frac |-> 0], size |-> 0]

\* existed and touched keep, for the call in progress, whether the
\* destination was there when the call looked for it and whether the call
\* has written to the file that is the destination
NewItem ==
    [pc |-> "probe", meta |-> NoMeta, fd |-> 0, msg |-> "",
     existed |-> FALSE, touched |-> FALSE]

\* the task spawned for one chunk: its items run on the rayon pool, then
\* send_results runs
NewChunk(medias) ==
    [medias |-> medias, items |-> [i \in 1..Len(medias) |-> NewItem],
     pc |-> "items", k |-> 1]

\* a chunking that keeps only the chunks that are full
ChunksOfFull(medias, n) ==
    LET cs == Chunks(Reverse(medias), n)
    IN  SelectSeq(cs, LAMBDA ch : Len(ch) = n)

\* req.medias.into_iter().rev().chunks(chunk_size)
ChunksOf(medias, n) == Chunks(Reverse(medias), n)

\* while let Some(req) = rx.recv().await
MainRecv ==
    /\ mpc = "recv"
    /\ job_ch # <<>>
    /\ mjob' = <<Head(job_ch)>>
    /\ job_ch' = Tail(job_ch)
    /\ mpc' = "mkdir"
    /\ UNCHANGED <<side, reg, bus, disp, result_ch, chunks, env, disk, outcomes>>

\* create_cache_dir_for_flavor(...).await, then one spawn_blocking per chunk
MainSpawn ==
    /\ mpc = "mkdir"
    /\ dirs' = dirs \cup {CachePath(mjob[1].flavor)}
    /\ chunks' = LET cs == ChunksOf(mjob[1].medias, chunk_size)
                 IN  [c \in 1..Len(cs) |-> NewChunk(cs[c])]
    /\ mpc' = "await"
    /\ UNCHANGED <<side, reg, bus, disp, job_ch, result_ch, mjob, env, cache, inodes,
                   outcomes>>

\* for h in handles { h.await??; }
MainJoin ==
    /\ mpc = "await"
    /\ \A c \in 1..Len(chunks) : chunks[c].pc = "done"
    /\ chunks' = <<>>
    /\ mpc' = "finished"
    /\ UNCHANGED <<side, reg, bus, disp, job_ch, result_ch, mjob, env, disk, outcomes>>

\* a batch loop that goes back to recv without sending Finished
MainSkipFinished ==
    /\ mpc = "finished"
    /\ mjob' = <<>>
    /\ mpc' = "recv"
    /\ UNCHANGED <<side, reg, bus, disp, job_ch, result_ch, chunks, env, disk,
                   outcomes>>

\* tx.send(Reply::Finished { handle }).await
MainSendFinished ==
    /\ mpc = "finished"
    /\ Len(result_ch) < ChannelCap
    /\ result_ch' = Append(result_ch, [kind |-> "Finished", handle |-> mjob[1].handle])
    /\ mjob' = <<>>
    /\ mpc' = "recv"
    /\ UNCHANGED <<side, reg, bus, disp, job_ch, chunks, env, disk, outcomes>>

(***************************************************************************)
(* Providers and the MIME map of the registry (rthumb/src/lib.rs,          *)
(* rthumb-image/src/lib.rs).  Providers are numbered from 1 in the order   *)
(* of registration; 0 stands for None.                                     *)
(***************************************************************************)
\* image::ImageFormat::all().map(|f| f.to_mime_type()), abridged
ImageFormatMimeTypes == <<"image/png", "image/jpeg", "image/gif", "image/x-icon">>

\* Itertools::dedup: consecutive equal elements become one
RECURSIVE Dedup(_)
Dedup(s) ==
    IF Len(s) <= 1 THEN s
    ELSE IF s[1] = s[2] THEN Dedup(Tail(s))
    ELSE <<s[1]>> \o Dedup(Tail(s))

\* ImageProvider::supported_mime_types
ImageMimeTypes == Dedup(ImageFormatMimeTypes \o <<"image/vnd.microsoft.icon">>)

\* ImageProvider, as the builder holds it
ImageProvider == [name |-> "Rust image crate", mime_types |-> ImageMimeTypes]

\* another implementation of the Provider trait, claiming a MIME type of
\* ImageProvider and one of its own
OtherProvider == [name |-> "other", mime_types |-> <<"video/mp4", "image/png">>]

\* the providers registered with the builder, in registration order
Providers == <<ImageProvider>>

\* the registrations the registry is built from
ProviderLists ==
    {<<ImageProvider>>, <<ImageProvider, OtherProvider>>,
     <<OtherProvider, ImageProvider>>}

\* mime_type_map.entry(mime_type).or_insert(idx) for each MIME of a provider
OrInsert(map, idx, mime_types) ==
    [m \in (DOMAIN map) \cup Range(mime_types) |->
        IF m \in DOMAIN map THEN map[m] ELSE idx]

\* the loop of build over the first n providers
RECURSIVE BuildUpTo(_, _)
BuildUpTo(registered, n) ==
    IF n = 0 THEN <<>>
    ELSE OrInsert(BuildUpTo(registered, n - 1), n, registered[n].mime_types)

\* a build whose insert overwrites: the last registration wins
BuildLast(registered) ==
    LET claimed == UNION {Range(registered[k].mime_types) : k \in 1..Len(registered)}
    IN  [m \in claimed |->
            CHOOSE k \in 1..Len(registered) :
                /\ m \in Range(registered[k].mime_types)
                /\ \A j \in (k + 1)..Len(registered) :
                      m \notin Range(registered[j].mime_types)]

\* ProviderRegistryBuilder::build: mime_type_map
Build(registered) == BuildUpTo(registered, Len(registered))

\* the MIME types of the model in the order of str's Ord
MimeOrder ==
    <<"image/gif", "image/jpeg", "image/png", "image/vnd.microsoft.icon",
      "image/x-icon", "video/mp4">>

\* Itertools::sorted on MIME types
Sorted(s) ==
    Flatten([k \in 1..Len(MimeOrder) |-> SelectSeq(s, LAMBDA m : m = MimeOrder[k])])

\* ProviderRegistry::supported_mime_types
SupportedMimeTypes(registered) ==
    Sorted(Flatten([k \in 1..Len(registered) |-> registered[k].mime_types]))

\* a GetSupported that returns its schemes vector as it is
GetSupportedOneScheme ==
    [schemes |-> <<"file">>,
     mime_types |-> Dedup(ImageFormatMimeTypes \o <<"image/vnd.microsoft.icon">>)]

\* Thumbnailer1::get_supported: the two sides of the cartesian product of
\* schemes and mime_types
GetSupported ==
    LET schemes == <<"file">>
        mime_types == Dedup(ImageFormatMimeTypes \o <<"image/vnd.microsoft.icon">>)
        it == Flatten([i \in 1..Len(schemes) |->
                  [j \in 1..Len(mime_types) |-> <<schemes[i], mime_types[j]>>]])
    IN  [schemes |-> [k \in 1..Len(it) |-> it[k][1]],
         mime_types |-> [k \in 1..Len(it) |-> it[k][2]]]

\* ProviderRegistry::get_provider: 0 is None
GetProvider(mime_type) ==
    IF mime_type \in DOMAIN Build(providers) THEN Build(providers)[mime_type] ELSE 0

\* the provider process_request hands the items of chunk c to; the daemon
\* calls process_item itself
ProviderOf(c) == IF reg_pc = "running" THEN GetProvider(chunks[c].mime_type) ELSE 0

(***************************************************************************)
(* process_item (main.rs), one action per access to the file system.       *)
(* Item i of chunk c has id i - 1: the index enumerate() gives it.         *)
(***************************************************************************)
ItemUri(c, i) == chunks[c].medias[i].uri

ItemDir == CachePath(mjob[1].flavor)

ThumbPath(c, i) == DestinationFilename(ItemDir, ItemUri(c, i))

TempThumbPath(c, i) == TempFilename(ItemDir, ItemUri(c, i), i - 1)

\* inodes that a directory entry or an open descriptor still refers to
LiveOf(dir, chs) ==
    {dir[p] : p \in DOMAIN dir} \cup
    UNION {{chs[c].items[i].fd : i \in 1..Len(chs[c].items)} : c \in 1..Len(chs)}

\* drop the inodes nothing refers to any more
Collect(files, dir, chs) ==
    [n \in (DOMAIN files) \cap LiveOf(dir, chs) |-> files[n]]

FreshInode == CHOOSE n \in 1..(Cardinality(DOMAIN inodes) + 1) : n \notin DOMAIN inodes

\* what a process_item call did: hit is the cache-hit return, partial tells
\* that the destination it accepted was not a complete file
Outcome(c, i, ok, hit) ==
    [handle |-> mjob[1].handle, flavor |-> mjob[1].flavor, chunk |-> c,
     id |-> i - 1, uri |-> ItemUri(c, i), ok |-> ok, hit |-> hit,
     by |-> ProviderOf(c),
     partial |-> hit /\ ~Complete(inodes[cache[ThumbPath(c, i)]]),
     existed |-> IF chunks[c].items[i].pc = "probe"
                 THEN ThumbPath(c, i) \in DOMAIN cache
                 ELSE chunks[c].items[i].existed,
     touched |-> chunks[c].items[i].touched]

\* process_item returns Err(msg)
ItemFail(c, i, msg) ==
    /\ chunks' = [chunks EXCEPT ![c].items[i] =
                      [NewItem EXCEPT !.pc = "err", !.msg = msg]]
    /\ outcomes' = outcomes \cup {Outcome(c, i, FALSE, FALSE)}

\* process_item returns Ok(())
ItemOk(c, i, hit) ==
    /\ chunks' = [chunks EXCEPT ![c].items[i] =
                      [NewItem EXCEPT !.pc = "ok"]]
    /\ outcomes' = outcomes \cup {Outcome(c, i, TRUE, hit)}

\* the cache-hit test of process_item
CacheHit(dir, files, path, original_meta) ==
    LET existing_original_meta == GetThumbOriginalMetadata(dir, files, path)
    IN  /\ existing_original_meta.ok
        /\ MetaEq(existing_original_meta.meta, original_meta)

\* image::open(&original_path): ok is FALSE with the ImageError text
ImageOpen(src, path) ==
    IF path \notin DOMAIN src THEN [ok |-> FALSE, err |-> ENOENT]
    ELSE IF ~src[path].decodable
         THEN [ok |-> FALSE, err |-> "Format error decoding Png"]
         ELSE [ok |-> TRUE]

\* process_item up to the thumbnail in memory: Url::parse, to_file_path,
\* ThumbFsMeta::from, the cache-hit test on the destination, and on a miss
\* image::open and im.thumbnail.  Only the cache-hit test reads state that
\* another item can change.
ItemProbe(c, i) ==
    /\ chunks[c].items[i].pc = "probe"
    /\ LET r == UrlToFilePath(ItemUri(c, i))
       IN  IF ~r.ok THEN ItemFail(c, i, r.err)
           ELSE LET m == ThumbFsMetaFrom(source, ItemUri(c, i), r.path)
                IN  IF ~m.ok THEN ItemFail(c, i, ENOENT)
                    ELSE IF CacheHit(cache, inodes, ThumbPath(c, i), m.meta)
                    THEN ItemOk(c, i, TRUE)
                    ELSE LET im == ImageOpen(source, r.path)
                         IN  IF ~im.ok THEN ItemFail(c, i, im.err)
                             ELSE /\ chunks' = [chunks EXCEPT
                                        ![c].items[i].pc = "open",
                                        ![c].items[i].meta = m.meta,
                                        ![c].items[i].existed =
                                            ThumbPath(c, i) \in DOMAIN cache]
                                  /\ UNCHANGED outcomes
    /\ UNCHANGED <<side, reg, bus, disp, job_ch, result_ch, batch, env, disk>>

\* OpenOptions write+truncate+create .open(temp_thumb_path); the open
\* fails when the flavor directory does not exist
ItemOpen(c, i) ==
    /\ chunks[c].items[i].pc = "open"
    /\ LET tmp == TempThumbPath(c, i)
           n == IF tmp \in DOMAIN cache THEN cache[tmp] ELSE FreshInode
       IN  IF ItemDir \notin dirs
           THEN /\ ItemFail(c, i, ENOENT)
                /\ UNCHANGED <<cache, inodes>>
           ELSE /\ cache' = [p \in (DOMAIN cache) \cup {tmp} |->
                                 IF p = tmp THEN n ELSE cache[p]]
                /\ inodes' = [m \in (DOMAIN inodes) \cup {n} |->
                                 IF m = n THEN EmptyFile ELSE inodes[m]]
                /\ chunks' = [chunks EXCEPT ![c].items[i].pc = "write",
                                            ![c].items[i].fd = n]
                /\ UNCHANGED outcomes
    /\ UNCHANGED <<side, reg, bus, disp, job_ch, result_ch, batch, env, dirs>>

\* the part of the PNG the item writes next: the parts go out in order
NextPart(c, i) ==
    LET it == chunks[c].items[i] IN
    IF it.msg = "" THEN 1 ELSE IF it.msg = "1" THEN 2 ELSE 3

\* write_header and the tEXt chunks; write_image_data; the IEND and close
\* of the writer's drop
ItemWrite(c, i) ==
    /\ chunks[c].items[i].pc = "write"
    /\ LET it == chunks[c].items[i]
           k == NextPart(c, i)
           dst == ThumbPath(c, i)
           hits == it.touched \/ (dst \in DOMAIN cache /\ cache[dst] = it.fd)
           chs == [chunks EXCEPT ![c].items[i] =
                      IF k = 3 THEN [it EXCEPT !.pc = "rename", !.fd = 0, !.msg = "",
                                               !.touched = hits]
                      ELSE [it EXCEPT !.msg = IF k = 1 THEN "1" ELSE "2",
                                      !.touched = hits]]
       IN  /\ chunks' = chs
           /\ inodes' = Collect([inodes EXCEPT ![it.fd] =
                                    WritePart(@, k, TextOf(it.meta))], cache, chs)
    /\ UNCHANGED <<side, reg, bus, disp, job_ch, result_ch, batch, env, dirs, cache, outcomes>>

\* std::fs::rename(&temp_thumb_path, &thumb_path)?
ItemRename(c, i) ==
    /\ chunks[c].items[i].pc = "rename"
    /\ LET tmp == TempThumbPath(c, i)
           dst == ThumbPath(c, i)
       IN  IF tmp \notin DOMAIN cache
           THEN /\ ItemFail(c, i, ENOENT)
                /\ UNCHANGED <<cache, inodes>>
           ELSE LET dir == [p \in ((DOMAIN cache) \cup {dst}) \ {tmp} |->
                               IF p = dst THEN cache[tmp] ELSE cache[p]]
                IN  /\ cache' = dir
                    /\ ItemOk(c, i, FALSE)
                    /\ inodes' = Collect(inodes, dir, chunks')
    /\ UNCHANGED <<side, reg, bus, disp, job_ch, result_ch, batch, env, dirs>>

(***************************************************************************)
(* send_results (main.rs), run by the chunk's task after partition_map.    *)
(***************************************************************************)
Successes(ch) ==
    SelectSeq([i \in 1..Len(ch.medias) |->
                  [uri |-> ch.medias[i].uri, ok |-> ch.items[i].pc = "ok",
                   msg |-> ch.items[i].msg]],
              LAMBDA e : e.ok)

\* a send_results that loses the first failure of the chunk
FailuresButFirst(ch) ==
    LET fs == SelectSeq([i \in 1..Len(ch.medias) |->
                            [uri |-> ch.medias[i].uri, ok |-> ch.items[i].pc = "ok",
                             msg |-> ch.items[i].msg]],
                        LAMBDA e : ~e.ok)
    IN  IF fs = <<>> THEN fs ELSE Tail(fs)

Failures(ch) ==
    SelectSeq([i \in 1..Len(ch.medias) |->
                  [uri |-> ch.medias[i].uri, ok |-> ch.items[i].pc = "ok",
                   msg |-> ch.items[i].msg]],
              LAMBDA e : ~e.ok)

Uris(es) == [j \in 1..Len(es) |-> es[j].uri]

\* tx.blocking_send(Reply::Ready { handle, uris })
SendReady(c) ==
    /\ chunks[c].pc = "items"
    /\ \A i \in 1..Len(chunks[c].items) : chunks[c].items[i].pc \in {"ok", "err"}
    /\ Len(result_ch) < ChannelCap
    /\ result_ch' = Append(result_ch,
           [kind |-> "Ready", handle |-> mjob[1].handle,
            uris |-> Uris(Successes(chunks[c]))])
    /\ chunks' = [chunks EXCEPT ![c].pc =
                      IF Failures(chunks[c]) = <<>> THEN "done" ELSE "errors"]
    /\ UNCHANGED <<side, reg, bus, disp, job_ch, batch, env, disk, outcomes>>

\* for (media, message) in failures { tx.blocking_send(Reply::Error ...) }
SendError(c) ==
    /\ chunks[c].pc = "errors"
    /\ Len(result_ch) < ChannelCap
    /\ LET fs == Failures(chunks[c])
           f == fs[chunks[c].k]
       IN  /\ result_ch' = Append(result_ch,
                  [kind |-> "Error", handle |-> mjob[1].handle, uri |-> f.uri,
                   message |-> f.msg])
           /\ chunks' = [chunks EXCEPT
                  ![c].k = @ + 1,
                  ![c].pc = IF chunks[c].k = Len(fs) THEN "done" ELSE "errors"]
    /\ UNCHANGED <<side, reg, bus, disp, job_ch, batch, env, disk, outcomes>>

(***************************************************************************)
(* The daemon.                                                             *)
(***************************************************************************)
Items == {<<c, i>> \in (1..Len(chunks)) \X (1..3) : i <= Len(chunks[c].items)}

\* the uris clients pass to Queue
UriLists ==
    {<<>>, <<UriA>>, <<UriB, UriHttp>>, <<UriA, UriA>>, <<UriMissing, UriBad>>}

MimeOf(uri) == IF uri = UriB THEN "image/jpeg" ELSE "image/png"

MimesOf(uris) == [j \in 1..Len(uris) |-> MimeOf(uris[j])]

\* the flavor clients pass to Queue
FlavorArgs == {"normal"}

\* the values of RTHUMB_CHUNK_SIZE the model runs with
ChunkSizes == {1, 2}

\* everything but the handle counter, the cache and the registered
\* providers, as
\* create_and_listen leaves it
InitRest ==
    /\ pending = <<>>
    /\ replies = <<>>
    /\ req_ch = <<>>
    /\ job_ch = <<>>
    /\ result_ch = <<>>
    /\ dpc = "select"
    /\ djob = <<>>
    /\ mpc = "recv"
    /\ mjob = <<>>
    /\ chunks = <<>>
    /\ chunk_size \in ChunkSizes
    /\ source = SourceFiles
    /\ emitted = <<>>
    /\ outcomes = {}
    /\ reg_pc = "idle"
    /\ reg_result = <<>>
    /\ answers = <<>>
    /\ unit = [op |-> "none"]

Init ==
    /\ next_handle = U32(1)
    /\ dirs = {}
    /\ cache = <<>>
    /\ inodes = <<>>
    /\ providers = Providers
    /\ InitRest

DispatchLoop == DispatchRecvJob \/ DispatchSendJob \/ DispatchRecvReply

BatchLoop == MainRecv \/ MainSpawn \/ MainJoin \/ MainSendFinished

Workers ==
    \/ \E it \in Items :
          \/ ItemProbe(it[1], it[2])
          \/ ItemOpen(it[1], it[2])
          \/ ItemWrite(it[1], it[2])
          \/ ItemRename(it[1], it[2])
    \/ \E c \in 1..Len(chunks) : SendReady(c) \/ SendError(c)

Daemon ==
    \/ QueueSend
    \/ DispatchRecvJob
    \/ DispatchSendJob
    \/ DispatchRecvReply
    \/ MainRecv
    \/ MainSpawn
    \/ MainJoin
    \/ MainSendFinished
    \/ \E it \in Items :
          \/ ItemProbe(it[1], it[2])
          \/ ItemOpen(it[1], it[2])
          \/ ItemWrite(it[1], it[2])
          \/ ItemRename(it[1], it[2])
    \/ \E c \in 1..Len(chunks) : SendReady(c) \/ SendError(c)

Next ==
    \/ \E uris \in UriLists, flavor \in FlavorArgs :
          Queue(uris, MimesOf(uris), flavor, MaxCalls)
    \/ Daemon

Spec == Init /\ [][Next]_vars

(***************************************************************************)
(* The bus surface under every flavor argument: clients queue one URI at a *)
(* time, valid and invalid flavors mixed.                                  *)
(***************************************************************************)
BusUriLists == {<<UriB>>}

BusFlavorArgs == Range(GetFlavors) \cup {"huge", "Normal"}

NextBus ==
    \/ \E uris \in BusUriLists, flavor \in BusFlavorArgs :
          Queue(uris, MimesOf(uris), flavor, BusCalls)
    \/ Daemon

SpecBus == Init /\ [][NextBus]_vars

(***************************************************************************)
(* Queue with uris and mime_types of any two lengths.                      *)
(***************************************************************************)
ZipUriLists == {<<>>, <<UriB>>, <<UriA, UriHttp>>}

ZipMimeLists == {<<>>, <<"image/png">>, <<"image/png", "image/png", "image/gif">>}

NextZip ==
    \/ \E uris \in ZipUriLists, mime_types \in ZipMimeLists :
          Queue(uris, mime_types, "normal", MaxCalls)
    \/ Daemon

SpecZip == Init /\ [][NextZip]_vars

(***************************************************************************)
(* The daemon started on a cache that holds, for a.png and b.jpg under     *)
(* normal, a destination file that is of no use.                           *)
(***************************************************************************)
\* a source metadata older than the one the source has now
StaleMeta(uri) ==
    [uri |-> uri, mtime_nsec |-> F64OfStat(1600000000, 0), size |-> 1024]

\* the files found at the destination: not a PNG, a PNG without the
\* Thumb:: chunks, one whose Thumb::MTime does not parse, one cut short
\* before its image data, one written for an older state of the source
OldFiles(uri) ==
    {[parts |-> Parts, text |-> NoText, garbage |-> TRUE],
     CompleteFile(NoText),
     CompleteFile([uri |-> uri, mtime |-> [sec |-> Unusable, micro |-> 0],
                   size |-> 1024]),
     [parts |-> {1}, text |-> TextOf(StaleMeta(uri)), garbage |-> FALSE],
     CompleteFile(TextOf(StaleMeta(uri)))}

StaleUriLists == {<<UriA>>, <<UriB>>, <<UriA, UriA>>}

InitStale ==
    /\ next_handle = U32(1)
    /\ dirs = {CachePath("Normal")}
    /\ \/ cache = <<>> /\ inodes = <<>>
       \/ \E fa \in OldFiles(UriA), fb \in OldFiles(UriB) :
             /\ cache = (DestinationFilename(CachePath("Normal"), UriA) :> 1) @@
                        (DestinationFilename(CachePath("Normal"), UriB) :> 2)
             /\ inodes = <<fa, fb>>
    /\ providers = Providers
    /\ InitRest

NextStale ==
    \/ \E uris \in StaleUriLists : Queue(uris, MimesOf(uris), "normal", MaxCalls)
    \/ Daemon

SpecStale == InitStale /\ [][NextStale]_vars

(***************************************************************************)
(* The daemon started on a cache that holds a thumbnail, written for an    *)
(* older state of the source, for every URI asked for.                     *)
(***************************************************************************)
FrameUris == {UriA, UriBad, UriMissing, UriHttp}

FrameSlot(uri) ==
    CASE uri = UriA -> 1 [] uri = UriBad -> 2 [] uri = UriMissing -> 3
      [] uri = UriHttp -> 4

FrameUriLists == {<<UriA>>, <<UriA, UriA>>, <<UriBad, UriMissing>>, <<UriHttp>>}

InitFrame ==
    /\ next_handle = U32(1)
    /\ dirs = {CachePath("Normal")}
    /\ cache = [path \in {DestinationFilename(CachePath("Normal"), uri) :
                              uri \in FrameUris} |->
                   FrameSlot(CHOOSE uri \in FrameUris :
                       path = DestinationFilename(CachePath("Normal"), uri))]
    /\ inodes = [n \in 1..4 |->
                    CompleteFile(TextOf(StaleMeta(
                        CHOOSE uri \in FrameUris : FrameSlot(uri) = n)))]
    /\ providers = Providers
    /\ InitRest

NextFrame ==
    \/ \E uris \in FrameUriLists : Queue(uris, MimesOf(uris), "normal", MaxCalls)
    \/ Daemon

SpecFrame == InitFrame /\ [][NextFrame]_vars

(***************************************************************************)
(* The same late in the life of the process, when 2^32 - 2 handles have    *)
(* been issued and their batches served; the histories start here.         *)
(***************************************************************************)
InitWrap ==
    /\ next_handle = [hi |-> Limb - 1, lo |-> Limb - 1]
    /\ dirs = {}
    /\ cache = <<>>
    /\ inodes = <<>>
    /\ providers = Providers
    /\ InitRest

SpecWrap == InitWrap /\ [][NextBus]_vars

(***************************************************************************)
(* The daemon under fair scheduling of the Queue continuation, the         *)
(* dispatch loop, the batch loop and the workers.                          *)
(***************************************************************************)
LiveUriLists == {<<>>, <<UriHttp>>}

NextLive ==
    \/ \E uris \in LiveUriLists : Queue(uris, MimesOf(uris), "normal", LiveCalls)
    \/ Daemon

Fairness ==
    /\ WF_vars(QueueSend)
    /\ WF_vars(DispatchLoop)
    /\ WF_vars(BatchLoop)
    /\ WF_vars(Workers)

SpecLive == Init /\ [][NextLive]_vars /\ Fairness

(***************************************************************************)
(* Dequeue (dbus.rs) next to a Queue call.  zbus may hold a call back      *)
(* while another is suspended; the model lets it be answered in any state. *)
(***************************************************************************)
\* batch h has been started and is not finished
InFlight(h) ==
    /\ \E i \in 1..Len(emitted) : emitted[i].sig = "Started" /\ emitted[i].handle = h
    /\ \A i \in 1..Len(emitted) : emitted[i].handle = h => emitted[i].sig # "Finished"

\* a Dequeue that drops the batch while it is still in a channel
DequeueCancel(handle) ==
    /\ Len(answers) < DeqCalls
    /\ answers' = Append(answers,
           [method |-> "Dequeue", handle |-> handle, result |-> "Ok",
            inflight |-> InFlight(handle)])
    /\ req_ch' = SelectSeq(req_ch, LAMBDA j : j.handle # handle)
    /\ job_ch' = SelectSeq(job_ch, LAMBDA j : j.handle # handle)
    /\ UNCHANGED <<providers, unit, reg, next_handle, pending, replies, disp,
                   result_ch, batch, chunks, env, disk, outcomes>>

\* Thumbnailer1::dequeue: Err(NotSupported); inflight records whether the
\* batch was in flight when the call was answered
Dequeue(handle) ==
    /\ Len(answers) < DeqCalls
    /\ answers' = Append(answers,
           [method |-> "Dequeue", handle |-> handle, result |-> "NotSupported",
            inflight |-> InFlight(handle)])
    /\ UNCHANGED <<providers, unit, reg, bus, disp, job_ch, result_ch, batch,
                   chunks, env, disk, outcomes>>

\* the batches queued and the handles passed to Dequeue
DeqUriLists == {<<UriB, UriHttp>>}

DeqHandles == {U32(1), U32(2)}

NextDeq ==
    \/ \E uris \in DeqUriLists : Queue(uris, MimesOf(uris), "normal", DeqCalls)
    \/ \E handle \in DeqHandles : Dequeue(handle)
    \/ Daemon

SpecDeq == Init /\ [][NextDeq]_vars

(***************************************************************************)
(* Functions taken on their own: one call at a time, on arguments drawn    *)
(* from small sets; unit holds the arguments and the result.               *)
(***************************************************************************)
\* the ThumbFsMeta records compared
MetaMTimes == {F64OfStat(1700000000, 500000000), F64OfStat(1700000000, 123456789), NaN}

Metas == [uri : {UriA, UriB}, mtime_nsec : MetaMTimes, size : {0, 2048, 4096}]

\* a == b on two ThumbFsMeta
UnitEq(a, b) ==
    /\ unit' = [op |-> "eq", a |-> a, b |-> b, result |-> MetaEq(a, b)]
    /\ UNCHANGED <<providers, answers, reg, bus, disp, job_ch, result_ch, batch,
                   chunks, env, disk, outcomes>>

\* (x as f64).round() for x = num / den >= 0: half away from zero
RoundDiv(num, den) == (2 * num + den) \div (2 * den)

\* num / den lies halfway between two integers
IsTie(num, den) == (2 * num) % den = 0 /\ ((2 * num) \div den) % 2 = 1

\* nwidth as f64 / width as f64 is exact when the divisor is a power of two
PowersOfTwo == {1, 2, 4, 8, 16, 32, 64, 128, 256, 512, 1024, 2048}

\* the values max((side as f64 * ratio).round(), 1) can take, ratio being
\* the f64 nearest to d / longer: on a tie of the exact product with an
\* inexact ratio the rounding falls on either side
ScaledSide(px, d, longer) ==
    LET up == Max(RoundDiv(px * d, longer), 1)
    IN  IF IsTie(px * d, longer) /\ longer \notin PowersOfTwo
        THEN {up, Max(up - 1, 1)}
        ELSE {up}

\* the (width, height) of im.thumbnail(d, d) for a w x h image:
\* resize_dimensions of the image crate with fill = false, whose ratio is
\* min(d / w, d / h) and is not capped at 1
ThumbnailSizes(w, h, d) ==
    LET longer == Max(w, h)
    IN  {[width |-> tw, height |-> th] :
            tw \in ScaledSide(w, d, longer), th \in ScaledSide(h, d, longer)}

\* the pixel sizes of the sources
SourceSides == {1, 2, 3, 100, 128, 256, 512, 1000}

\* im.thumbnail(dimension, dimension) in process_item
UnitThumbnail(w, h, flavor) ==
    /\ \E size \in ThumbnailSizes(w, h, Dimension(flavor)) :
          unit' = [op |-> "thumbnail", w |-> w, h |-> h, d |-> Dimension(flavor),
                   result |-> size]
    /\ UNCHANGED <<providers, answers, reg, bus, disp, job_ch, result_ch, batch,
                   chunks, env, disk, outcomes>>

\* a GetSupported call on the bus
UnitGetSupported ==
    /\ unit' = [op |-> "GetSupported", result |-> GetSupported]
    /\ UNCHANGED <<providers, answers, reg, bus, disp, job_ch, result_ch, batch,
                   chunks, env, disk, outcomes>>

\* supported_mime_types of a registry built from registered
UnitSupportedMimeTypes(registered) ==
    /\ unit' = [op |-> "supported_mime_types", registered |-> registered,
                result |-> SupportedMimeTypes(registered)]
    /\ UNCHANGED <<providers, answers, reg, bus, disp, job_ch, result_ch, batch,
                   chunks, env, disk, outcomes>>

NextUnit ==
    \/ \E a \in Metas, b \in Metas : UnitEq(a, b)
    \/ UnitGetSupported
    \/ \E registered \in ProviderLists : UnitSupportedMimeTypes(registered)
    \/ \E w \in SourceSides, h \in SourceSides, flavor \in ThumbFlavor :
          UnitThumbnail(w, h, flavor)

SpecUnit == Init /\ [][NextUnit]_vars

(***************************************************************************)
(* The provenance functions taken on their own (xdg.rs): the tEXt chunks   *)
(* of a PNG whose header reads are a sequence of (keyword, text) in file   *)
(* order.  A text is a decimal with six fractional digits, an unsigned     *)
(* integer, or a word.                                                     *)
(***************************************************************************)
Decimal(sec, micro) == [kind |-> "decimal", word |-> "", sec |-> sec, micro |-> micro]

Integer(v) == [kind |-> "integer", word |-> "", sec |-> v, micro |-> 0]

Word(w) == [kind |-> "word", word |-> w, sec |-> 0, micro |-> 0]

\* chunk.text.parse::<f64>().ok(): <<>> is None
ParseF64(text) ==
    CASE text.kind = "decimal" -> <<ParseMTime([sec |-> text.sec, micro |-> text.micro])>>
      [] text.kind = "integer" -> <<[sec |-> text.sec, frac |-> 0]>>
      [] text.kind = "word" -> IF text.word = "NaN" THEN <<NaN>> ELSE <<>>

\* chunk.text.parse::<u64>().ok()
ParseU64(text) == IF text.kind = "integer" THEN <<text.sec>> ELSE <<>>

TEXtChunk(keyword, text) == [keyword |-> keyword, text |-> text]

\* the match of the loop body that keeps an earlier value when the text
\* does not parse
ReadChunkKeep(found, chunk) ==
    CASE chunk.keyword = "Thumb::URI" -> [found EXCEPT !.uri = <<chunk.text>>]
      [] chunk.keyword = "Thumb::MTime" ->
            IF ParseF64(chunk.text) = <<>> THEN found
            ELSE [found EXCEPT !.mtime_nsec = ParseF64(chunk.text)]
      [] chunk.keyword = "Thumb::Size" ->
            IF ParseU64(chunk.text) = <<>> THEN found
            ELSE [found EXCEPT !.size = ParseU64(chunk.text)]
      [] OTHER -> found

\* the match of the loop body of get_thumb_original_metadata
ReadChunk(found, chunk) ==
    CASE chunk.keyword = "Thumb::URI" -> [found EXCEPT !.uri = <<chunk.text>>]
      [] chunk.keyword = "Thumb::MTime" -> [found EXCEPT !.mtime_nsec = ParseF64(chunk.text)]
      [] chunk.keyword = "Thumb::Size" -> [found EXCEPT !.size = ParseU64(chunk.text)]
      [] OTHER -> found

\* for chunk in uncompressed_latin1_text, from uri = mtime_nsec = size = None
RECURSIVE ReadChunks(_, _)
ReadChunks(text_chunks, n) ==
    IF n = 0 THEN [uri |-> <<>>, mtime_nsec |-> <<>>, size |-> <<>>]
    ELSE ReadChunk(ReadChunks(text_chunks, n - 1), text_chunks[n])

\* the Ok(ThumbFsMeta { .. }) that ends get_thumb_original_metadata
ReadMetadata(text_chunks) ==
    LET found == ReadChunks(text_chunks, Len(text_chunks))
    IN  IF found.uri = <<>> THEN [ok |-> FALSE, err |-> "missing uri"]
        ELSE IF found.mtime_nsec = <<>> THEN [ok |-> FALSE, err |-> "missing mtime_nsec"]
        ELSE [ok |-> TRUE,
              meta |-> [uri |-> found.uri[1],
                        mtime_nsec |-> found.mtime_nsec[1],
                        size |-> IF found.size = <<>> THEN 0 ELSE found.size[1]]]

\* the tEXt chunks tried, and how many a file holds at most
MaxChunks == 3

TextChunks ==
    {TEXtChunk("Thumb::URI", Word(UriA)),
     TEXtChunk("Thumb::URI", Word(UriB)),
     TEXtChunk("Thumb::MTime", Decimal(1700000000, 500000)),
     TEXtChunk("Thumb::MTime", Word("yesterday")),
     TEXtChunk("Thumb::MTime", Word("NaN")),
     TEXtChunk("Thumb::Size", Integer(2048)),
     TEXtChunk("Thumb::Size", Word("2 KiB")),
     TEXtChunk("Thumb::Mimetype", Word("image/png")),
     TEXtChunk("Software", Integer(3))}

RECURSIVE SeqsUpTo(_, _)
SeqsUpTo(S, n) ==
    IF n = 0 THEN {<<>>}
    ELSE LET shorter == SeqsUpTo(S, n - 1)
         IN  shorter \cup {Append(q, x) : q \in shorter, x \in S}

\* get_thumb_original_metadata on a PNG with these tEXt chunks
UnitRead(text_chunks) ==
    /\ unit' = [op |-> "read", text_chunks |-> text_chunks,
                result |-> ReadMetadata(text_chunks)]
    /\ UNCHANGED <<providers, answers, reg, bus, disp, job_ch, result_ch, batch,
                   chunks, env, disk, outcomes>>

\* the three write_text_chunk calls of write_thumb_with_original_metadata
WriteChunks(meta) ==
    LET t == FormatMTime(meta.mtime_nsec)
    IN  <<TEXtChunk("Thumb::URI", Word(meta.uri)),
          TEXtChunk("Thumb::MTime", Decimal(t.sec, t.micro)),
          TEXtChunk("Thumb::Size", Integer(meta.size))>>

\* the ThumbFsMeta of sources as ThumbFsMeta::from computes them
StatNsecs == {0, 1, 250000000, 500000000, 123456789, 999999999}

StatMetas ==
    [uri : {UriA, UriB},
     mtime_nsec : {F64OfStat(1700000000, n) : n \in StatNsecs},
     size : {0, 2048}]

\* write_thumb_with_original_metadata(path, m, ..) then
\* get_thumb_original_metadata(path); the text of a URI chunk is a word
UnitRoundTrip(m) ==
    /\ LET read == ReadMetadata(WriteChunks(m))
       IN  unit' = [op |-> "roundtrip", m |-> m, ok |-> read.ok,
                    result |-> IF read.ok
                               THEN [read.meta EXCEPT !.uri = read.meta.uri.word]
                               ELSE m]
    /\ UNCHANGED <<providers, answers, reg, bus, disp, job_ch, result_ch, batch,
                   chunks, env, disk, outcomes>>

\* a == b, b == c and a == c, with b == a and a == a
UnitEqChain(a, b, c) ==
    /\ unit' = [op |-> "chain", a |-> a, b |-> b, c |-> c,
                aa |-> MetaEq(a, a), ab |-> MetaEq(a, b), ba |-> MetaEq(b, a),
                bc |-> MetaEq(b, c), ac |-> MetaEq(a, c)]
    /\ UNCHANGED <<providers, answers, reg, bus, disp, job_ch, result_ch, batch,
                   chunks, env, disk, outcomes>>

\* the functions keep nothing between two calls: a behaviour is one call
NextMeta ==
    \/ \E text_chunks \in SeqsUpTo(TextChunks, MaxChunks) :
          unit.op = "none" /\ UnitRead(text_chunks)
    \/ \E m \in StatMetas : unit.op = "none" /\ UnitRoundTrip(m)
    \/ \E a \in Metas, b \in Metas, c \in Metas :
          unit.op = "none" /\ UnitEqChain(a, b, c)

SpecMeta == Init /\ [][NextMeta]_vars

(***************************************************************************)
(* The provider registry (rthumb/src/lib.rs).  Its provider is the         *)
(* ImageProvider of rthumb-image, whose process_one_media is the code of   *)
(* process_item: the item actions above serve for both.                    *)
(***************************************************************************)
\* the medias of one MIME type, in batch order (into_group_map_by)
Group(medias, mime_type) == SelectSeq(medias, LAMBDA m : m.mime_type = mime_type)

\* the sub-batches of one MIME group: medias.into_iter().rev().chunks(2)
SubBatches(medias, mime_type) ==
    LET cs == Chunks(Reverse(Group(medias, mime_type)), 2)
    IN  [c \in 1..Len(cs) |->
            [medias |-> cs[c], items |-> [i \in 1..Len(cs[c]) |-> NewItem],
             pc |-> "items", k |-> 1, mime_type |-> mime_type]]

\* the orders in which a HashMap can yield the groups
Orders(S) ==
    {o \in [1..Cardinality(S) -> S] : \A i, j \in 1..Cardinality(S) : o[i] = o[j] => i = j}

\* the calls made to process_request
RegBatches ==
    {<<[uri |-> UriA, mime_type |-> "image/png"]>>,
     <<[uri |-> UriA, mime_type |-> "image/png"],
       [uri |-> UriB, mime_type |-> "image/jpeg"]>>,
     <<[uri |-> UriA, mime_type |-> "image/png"],
       [uri |-> UriHttp, mime_type |-> "image/png"],
       [uri |-> UriB, mime_type |-> "image/png"]>>,
     <<[uri |-> UriA, mime_type |-> "image/png"],
       [uri |-> UriB, mime_type |-> "video/mp4"]>>}

\* process_request up to chunked_by_mime
RegCall(medias, flavor) ==
    /\ reg_pc = "idle"
    /\ \E order \in Orders({medias[i].mime_type : i \in 1..Len(medias)}) :
          chunks' = Flatten([g \in 1..Len(order) |-> SubBatches(medias, order[g])])
    /\ mjob' = <<[handle |-> U32(1), flavor |-> flavor, medias |-> medias]>>
    /\ reg_pc' = "running"
    /\ UNCHANGED <<side, bus, disp, job_ch, result_ch, mpc, env, disk, outcomes,
                   reg_result>>

\* the closure run for a sub-batch whose MIME type has a provider: the
\* partition_map of process_batch_sequentially once its items are through
RegCollect(c) ==
    /\ reg_pc = "running"
    /\ chunks[c].pc = "items"
    /\ GetProvider(chunks[c].mime_type) # 0
    /\ \A i \in 1..Len(chunks[c].items) : chunks[c].items[i].pc \in {"ok", "err"}
    /\ chunks' = [chunks EXCEPT ![c].pc = "done"]
    /\ UNCHANGED <<side, reg, bus, disp, job_ch, result_ch, batch, env, disk, outcomes>>

\* the closure run for a sub-batch whose MIME type has no provider:
\* (vec![], vec![])
RegDrop(c) ==
    /\ reg_pc = "running"
    /\ chunks[c].pc = "items"
    /\ GetProvider(chunks[c].mime_type) = 0
    /\ chunks' = [chunks EXCEPT ![c].pc = "dropped"]
    /\ UNCHANGED <<side, reg, bus, disp, job_ch, result_ch, batch, env, disk, outcomes>>

\* the (Successes, Failures) pair of a sub-batch
SubResult(ch) ==
    IF ch.pc = "dropped" THEN [successes |-> <<>>, failures |-> <<>>]
    ELSE [successes |-> Uris(Successes(ch)), failures |-> Uris(Failures(ch))]

\* process_request from the collect to the return of the flattened pair
RegReturn ==
    /\ reg_pc = "running"
    /\ \A c \in 1..Len(chunks) : chunks[c].pc \in {"done", "dropped"}
    /\ reg_result' =
          <<[medias |-> mjob[1].medias,
             successes |-> Flatten([c \in 1..Len(chunks) |-> SubResult(chunks[c]).successes]),
             failures |-> Flatten([c \in 1..Len(chunks) |-> SubResult(chunks[c]).failures])]>>
    /\ chunks' = <<>>
    /\ mjob' = <<>>
    /\ reg_pc' = "returned"
    /\ UNCHANGED <<side, bus, disp, job_ch, result_ch, mpc, env, disk, outcomes>>

\* the items of the sub-batches that are handed to ImageProvider
RegItems ==
    {it \in Items : /\ ProviderOf(it[1]) # 0
                    /\ providers[ProviderOf(it[1])] = ImageProvider}

\* the items of the sub-batches that are handed to the other provider
OtherItems ==
    {it \in Items : /\ ProviderOf(it[1]) # 0
                    /\ providers[ProviderOf(it[1])] = OtherProvider}

\* provider.process(opaque, cache_dir, job) of the other provider: Ok or
\* Err, as it pleases
OtherProcess(c, i) ==
    /\ chunks[c].items[i].pc = "probe"
    /\ \/ ItemOk(c, i, FALSE)
       \/ ItemFail(c, i, "other provider failed")
    /\ UNCHANGED <<side, reg, bus, disp, job_ch, result_ch, batch, env, disk>>

NextReg ==
    \/ \E medias \in RegBatches : RegCall(medias, "Normal")
    \/ \E it \in RegItems :
          \/ ItemProbe(it[1], it[2])
          \/ ItemOpen(it[1], it[2])
          \/ ItemWrite(it[1], it[2])
          \/ ItemRename(it[1], it[2])
    \/ \E it \in OtherItems : OtherProcess(it[1], it[2])
    \/ \E c \in 1..Len(chunks) : RegCollect(c) \/ RegDrop(c)
    \/ RegReturn

\* a registry built from each registration, its cache directory with or
\* without the flavor directory
InitReg ==
    /\ next_handle = U32(1)
    /\ dirs \in {{}, {CachePath("Normal")}}
    /\ cache = <<>>
    /\ inodes = <<>>
    /\ providers \in ProviderLists
    /\ InitRest

SpecReg == InitReg /\ [][NextReg]_vars

(***************************************************************************)
(* What the histories say about a handle.                                  *)
(***************************************************************************)
\* the handles Queue has returned
Accepted == {replies[i].handle : i \in {j \in 1..Len(replies) : replies[j].result = "Ok"}}

\* the medias of the batch accepted with handle h
BatchOf(h) ==
    LET i == CHOOSE j \in 1..Len(replies) :
                 replies[j].result = "Ok" /\ replies[j].handle = h
    IN  replies[i].medias

\* positions in emitted of the signals named sig for handle h
Pos(sig, h) == {i \in 1..Len(emitted) : emitted[i].sig = sig /\ emitted[i].handle = h}

PosAny(h) == {i \in 1..Len(emitted) : emitted[i].handle = h}

Count(sig, h) == Cardinality(Pos(sig, h))

\* the process_item calls of batch h that returned Err
FailedItems(h) == {o \in outcomes : o.handle = h /\ ~o.ok}

\* the URIs the Ready and Error signals of h report, with multiplicity
RECURSIVE ReportedFrom(_, _)
ReportedFrom(h, n) ==
    IF n = 0 THEN EmptyBag
    ELSE LET e == emitted[n]
         IN  ReportedFrom(h, n - 1) (+)
             (IF e.handle # h THEN EmptyBag
              ELSE IF e.sig = "Ready" THEN SeqToBag(e.uris)
              ELSE IF e.sig = "Error" THEN SetToBag({e.uri})
              ELSE EmptyBag)

Reported(h) == ReportedFrom(h, Len(emitted))

BatchUris(h) == SeqToBag([i \in 1..Len(BatchOf(h)) |-> BatchOf(h)[i].uri])

\* ceil(n / d)
CeilDiv(n, d) == (n + d - 1) \div d

(***************************************************************************)
(* C1.  As claimed: once Finished(h) is out, the signals for h are exactly *)
(* one Started, one Ready, one Finished and one Error per failed item.     *)
(***************************************************************************)
C1_OneReadyPerBatch ==
    \A h \in Accepted :
        Count("Finished", h) >= 1 =>
            /\ Count("Started", h) = 1
            /\ Count("Ready", h) = 1
            /\ Count("Finished", h) = 1
            /\ Count("Error", h) = Cardinality(FailedItems(h))

\* C1, amended.  There is one Ready per chunk: at every moment a handle has
\* at most one Started, at most one Finished, at most ceil(n / chunk_size)
\* Ready and at most one Error per failed item, every Error carries code 1,
\* and once Finished(h) is out the signals for h are exactly one Started,
\* ceil(n / chunk_size) Ready (none for an empty batch), one Finished and one
\* Error per failed item.
C1_OneReadyPerChunk ==
    /\ \A i \in 1..Len(emitted) :
          /\ emitted[i].handle \in Accepted
          /\ emitted[i].sig = "Error" => emitted[i].code = 1
    /\ \A h \in Accepted :
          /\ Count("Started", h) <= 1
          /\ Count("Finished", h) <= 1
          /\ Count("Ready", h) <= CeilDiv(Len(BatchOf(h)), chunk_size)
          /\ Count("Error", h) <= Cardinality(FailedItems(h))
          /\ Count("Finished", h) = 1 =>
                /\ Count("Started", h) = 1
                /\ Count("Ready", h) = CeilDiv(Len(BatchOf(h)), chunk_size)
                /\ Count("Error", h) = Cardinality(FailedItems(h))

\* a two-chunk batch with one failed item has been served to its Finished
C1_Witness ==
    \E h \in Accepted :
        /\ Count("Finished", h) = 1
        /\ Count("Ready", h) = 2
        /\ Count("Error", h) = 1

(***************************************************************************)
(* C2.  As claimed: for a handle, Started precedes Ready, Ready precedes   *)
(* every Error, Ready and Error precede Finished, nothing follows Finished.*)
(***************************************************************************)
C2_ReadyBeforeEveryError ==
    \A h \in Accepted :
        /\ \A s \in Pos("Started", h), r \in Pos("Ready", h) : s < r
        /\ \A r \in Pos("Ready", h), e \in Pos("Error", h) : r < e
        /\ \A f \in Pos("Finished", h), i \in PosAny(h) : i <= f

\* C2, amended.  Ready and Error are sent chunk by chunk, so a Ready of one
\* chunk may follow an Error of another: for a handle, Started is the first
\* signal, every Ready and Error has the Started before it, every Error has
\* a Ready (that of its chunk) before it, and Finished is the last signal.
C2_OrderPerChunk ==
    \A h \in Accepted :
        /\ \A i \in Pos("Ready", h) \cup Pos("Error", h) \cup Pos("Finished", h) :
              \E s \in Pos("Started", h) : s < i
        /\ \A e \in Pos("Error", h) : \E r \in Pos("Ready", h) : r < e
        /\ \A f \in Pos("Finished", h), i \in PosAny(h) : i <= f

\* a batch has finished after Ready, Error, Ready in that order
C2_Witness ==
    \E h \in Accepted :
        /\ Count("Finished", h) = 1
        /\ \E r \in Pos("Ready", h), e \in Pos("Error", h) : e < r

(***************************************************************************)
(* C4.  Each media of a batch is reported exactly once: when Finished(h)   *)
(* is out, the URIs in the Ready and Error signals of h are, counted with  *)
(* multiplicity, the URIs of the batch; until then they are among them.    *)
(* A failed item does not keep its siblings from being reported.           *)
(***************************************************************************)
C4_EachMediaReportedOnce ==
    \A h \in Accepted :
        /\ Reported(h) \sqsubseteq BatchUris(h)
        /\ Count("Finished", h) >= 1 => Reported(h) = BatchUris(h)
        /\ \A u \in BagToSet(BatchUris(h)) :
              CopiesIn(u, BatchUris(h)) = 1 =>
                  ~(/\ \E r \in Pos("Ready", h) : u \in Range(emitted[r].uris)
                    /\ \E e \in Pos("Error", h) : emitted[e].uri = u)

\* a batch has finished with one media in a Ready and its sibling in an Error
C4_Witness ==
    \E h \in Accepted :
        /\ Count("Finished", h) = 1
        /\ \E r \in Pos("Ready", h) : UriB \in Range(emitted[r].uris)
        /\ \E e \in Pos("Error", h) : emitted[e].uri = UriHttp

(***************************************************************************)
(* C3.  Every batch Queue has accepted is eventually followed by the       *)
(* emission of its Finished, under fair scheduling.                        *)
(***************************************************************************)
C3_FinishedEventually ==
    \A n \in 1..LiveCalls :
        [](U32(n) \in Accepted => <>(Count("Finished", U32(n)) >= 1))

(***************************************************************************)
(* C6.  The destination <md5(uri)>.png is at every moment absent or a      *)
(* complete thumbnail, and no cache-hit test accepts a partial file.       *)
(***************************************************************************)
C6_DestinationNeverPartial ==
    /\ \A p \in DOMAIN cache : p[3] = "png" => Complete(inodes[cache[p]])
    /\ \A o \in outcomes : ~o.partial

(***************************************************************************)
(* C7.  Once an item has been processed successfully, processing the same  *)
(* URI and flavor in a later batch (the source is unchanged) returns       *)
(* success on the cache-hit path.                                          *)
(***************************************************************************)
C7_WarmCacheHits ==
    \A o1 \in outcomes, o2 \in outcomes :
        (/\ o1.ok
         /\ U32Lt(o1.handle, o2.handle)
         /\ o1.uri = o2.uri
         /\ o1.flavor = o2.flavor) => (o2.ok /\ o2.hit)

(***************************************************************************)
(* C8.  The first handle Queue returns is 1, and the handles it returns    *)
(* (or has taken for a call still waiting to enqueue) strictly increase,   *)
(* so no two calls get the same handle.                                    *)
(***************************************************************************)
OkReplies == SelectSeq(replies, LAMBDA r : r.result = "Ok")

\* the handles in the order Queue took them
Issued ==
    [i \in 1..Len(OkReplies) |-> OkReplies[i].handle] \o
    [i \in 1..Len(pending) |-> pending[i].handle]

C8_FirstIsOneThenIncreasing ==
    /\ Issued # <<>> => Issued[1] = U32(1)
    /\ \A i \in 1..Len(Issued), j \in 1..Len(Issued) :
          i < j => U32Lt(Issued[i], Issued[j])

\* two Queue calls have returned handles
C8_Witness == Len(OkReplies) >= 2

(***************************************************************************)
(* C9.  Over the whole life of the process the handles issued strictly     *)
(* increase and none is issued twice.                                      *)
(***************************************************************************)
C9_NeverReusedForLife ==
    \A i \in 1..Len(Issued), j \in 1..Len(Issued) :
        i < j => (Issued[i] # Issued[j] /\ U32Lt(Issued[i], Issued[j]))

(***************************************************************************)
(* C10.  Queue accepts exactly the flavor names GetFlavors returns; for    *)
(* any other it replies InvalidArgs, and that call enqueues nothing, emits *)
(* nothing and takes no handle: the k-th accepted call gets handle k.      *)
(***************************************************************************)
C10_Gate ==
    /\ \A i \in 1..Len(replies) :
          /\ replies[i].result \in {"Ok", "InvalidArgs"}
          /\ replies[i].result = "Ok" <=> replies[i].flavor \in Range(GetFlavors)
    /\ \A i \in 1..Len(pending) : pending[i].arg \in Range(GetFlavors)
    /\ \A i \in 1..Len(Issued) : Issued[i] = U32(i)

C10_Rejects ==
    (/\ Len(replies') = Len(replies) + 1
     /\ replies'[Len(replies')].result = "InvalidArgs")
        => UNCHANGED <<next_handle, pending, req_ch, job_ch, result_ch, dpc,
                       djob, mpc, mjob, chunks, chunk_size, source, dirs, cache,
                       inodes, emitted, outcomes>>

C10_OnlyTheFourFlavors == []C10_Gate /\ [][C10_Rejects]_vars

\* a call with an unknown flavor was rejected and a later call was accepted
C10_Witness ==
    /\ \E i \in 1..Len(replies), j \in 1..Len(replies) :
          /\ i < j
          /\ replies[i].result = "InvalidArgs"
          /\ replies[j].result = "Ok"

(***************************************************************************)
(* C5.  process_request(b) returns (S, F) with |S| + |F| = |b.medias|,     *)
(* every media of b in exactly one of the two lists, and S and F disjoint  *)
(* by URI.                                                                 *)
(***************************************************************************)
C5_EveryMediaInOneList ==
    \A k \in 1..Len(reg_result) :
        LET r == reg_result[k]
        IN  /\ Len(r.successes) + Len(r.failures) = Len(r.medias)
            /\ SeqToBag(r.successes) (+) SeqToBag(r.failures)
                   = SeqToBag([i \in 1..Len(r.medias) |-> r.medias[i].uri])
            /\ Range(r.successes) \cap Range(r.failures) = {}

(***************************************************************************)
(* C11.  As claimed: a Queue call that finds the request channel full gets *)
(* an error reply and its batch is not enqueued.                           *)
(***************************************************************************)
C11_FullChannelFails ==
    \A i \in 1..Len(replies) :
        (replies[i].result # "InvalidArgs" /\ replies[i].waited)
            => /\ replies[i].result = "Failed"
               /\ Count("Started", replies[i].handle) = 0

(***************************************************************************)
(* C11, amended.  A Queue call that finds the request channel full is not  *)
(* answered while the channel is full; it never gets an error for that:    *)
(* when it is answered the answer is Ok(handle) and its batch has just     *)
(* been enqueued, in a step that found room in the channel.                *)
(***************************************************************************)
C11_Replies ==
    \A i \in 1..Len(replies) : replies[i].result \in {"Ok", "InvalidArgs"}

C11_Answer ==
    (pending # <<>> /\ replies' # replies)
        => /\ Len(req_ch) < ChannelCap
           /\ req_ch' = Append(req_ch, [handle |-> pending[1].handle,
                                        flavor |-> pending[1].flavor,
                                        medias |-> pending[1].medias])
           /\ Len(replies') = Len(replies) + 1
           /\ replies'[Len(replies')].result = "Ok"
           /\ replies'[Len(replies')].handle = pending[1].handle

C11_FullChannelWaits == []C11_Replies /\ [][C11_Answer]_vars

\* a call that found the channel full has been answered Ok
C11_Witness ==
    \E i \in 1..Len(replies) :
        replies[i].result = "Ok" /\ replies[i].waited

(***************************************************************************)
(* C12.  Dequeue(handle) replies NotSupported for every handle and in      *)
(* every state and changes nothing; a batch with that handle goes on as    *)
(* if Dequeue had not been called: once its Finished is out, each of its   *)
(* medias has been reported once.                                          *)
(***************************************************************************)
C12_Replies ==
    /\ \A i \in 1..Len(answers) :
          answers[i].method = "Dequeue" => answers[i].result = "NotSupported"
    /\ \A h \in Accepted :
          /\ Count("Started", h) <= 1
          /\ Count("Finished", h) = 1
                => (Count("Started", h) = 1 /\ Reported(h) = BatchUris(h))

C12_Frame ==
    answers' # answers
        => UNCHANGED <<next_handle, pending, replies, req_ch, job_ch, result_ch,
                       dpc, djob, mpc, mjob, chunks, chunk_size, source, dirs,
                       cache, inodes, emitted, outcomes, reg_pc, reg_result,
                       providers, unit>>

C12_DequeueChangesNothing == []C12_Replies /\ [][C12_Frame]_vars

\* Dequeue(h) was answered while batch h was in flight, and the batch has
\* finished with its Error
C12_Witness ==
    \E i \in 1..Len(answers), h \in Accepted :
        /\ answers[i].method = "Dequeue"
        /\ answers[i].handle = h
        /\ answers[i].inflight
        /\ Count("Finished", h) = 1
        /\ \E e \in Pos("Error", h) : emitted[e].uri = UriHttp

(***************************************************************************)
(* C13.  Two ThumbFsMeta records compare equal exactly when their URIs are *)
(* equal, their mtimes are equal (as f64 values) and either size is 0 or   *)
(* the sizes are equal; with size 0 on either side, iff uri and mtime      *)
(* match.                                                                  *)
(***************************************************************************)
C13_EqualityRule ==
    unit.op = "eq" =>
        LET a == unit.a
            b == unit.b
            same == /\ a.uri = b.uri
                    /\ a.mtime_nsec # NaN
                    /\ b.mtime_nsec # NaN
                    /\ a.mtime_nsec = b.mtime_nsec
        IN  /\ unit.result <=>
                  (same /\ (a.size = 0 \/ b.size = 0 \/ a.size = b.size))
            /\ (a.size = 0 \/ b.size = 0) => (unit.result <=> same)

\* a record of size 0 and one of size 4096 have compared equal
C13_Witness ==
    /\ unit.op = "eq"
    /\ unit.a.size = 0
    /\ unit.b.size = 4096
    /\ unit.result

(***************************************************************************)
(* C14.  build maps each MIME type to the first-registered provider that   *)
(* claims it, and process_request hands each item whose declared MIME type *)
(* is registered to that provider, once, whatever the file holds; an item  *)
(* of an unregistered MIME type is handed to none.                         *)
(***************************************************************************)
C14_FirstClaim(mime_type) ==
    LET claiming == {k \in 1..Len(providers) : mime_type \in Range(providers[k].mime_types)}
    IN  IF claiming = {} THEN 0
        ELSE CHOOSE k \in claiming : \A j \in claiming : k <= j

C14_FirstRegistrationWins ==
    /\ DOMAIN Build(providers) =
          UNION {Range(providers[k].mime_types) : k \in 1..Len(providers)}
    /\ \A m \in DOMAIN Build(providers) : Build(providers)[m] = C14_FirstClaim(m)
    /\ reg_pc = "running" =>
          \A o \in outcomes :
              /\ o.chunk \in 1..Len(chunks)
              /\ o.by = C14_FirstClaim(chunks[o.chunk].mime_type)
              /\ o.by # 0
    /\ \A k \in 1..Len(reg_result) :
          \A j \in 1..Len(reg_result[k].medias) :
              LET m == reg_result[k].medias[j]
                  calls == {o \in outcomes : o.uri = m.uri}
              IN  IF C14_FirstClaim(m.mime_type) = 0 THEN calls = {}
                  ELSE /\ Cardinality(calls) = 1
                       /\ \A o \in calls : o.by = C14_FirstClaim(m.mime_type)

\* with both providers registered, the other one first, a call has
\* returned whose image/png media went to the other provider and whose
\* image/jpeg media went to ImageProvider
C14_Witness ==
    /\ reg_pc = "returned"
    /\ providers = <<OtherProvider, ImageProvider>>
    /\ \E o \in outcomes : o.uri = UriA /\ o.by = 1
    /\ \E o \in outcomes : o.uri = UriB /\ o.by = 2

(***************************************************************************)
(* C15.  Queue pairs uris[i] with mime_types[i] in order; when the lengths *)
(* differ the batch has min(|uris|, |mime_types|) medias, the call still   *)
(* returns a handle, and no signal mentions a dropped entry.               *)
(***************************************************************************)
C15_TruncatesToShorter ==
    /\ \A i \in 1..Len(replies) :
          LET r == replies[i]
              n == IF Len(r.uris) <= Len(r.mime_types) THEN Len(r.uris)
                   ELSE Len(r.mime_types)
          IN  /\ r.result = "Ok"
              /\ Len(r.medias) = n
              /\ \A j \in 1..n :
                    /\ r.medias[j].uri = r.uris[j]
                    /\ r.medias[j].mime_type = r.mime_types[j]
              /\ \A e \in PosAny(r.handle) :
                    /\ emitted[e].sig = "Ready" =>
                          Range(emitted[e].uris) \subseteq {r.uris[j] : j \in 1..n}
                    /\ emitted[e].sig = "Error" =>
                          emitted[e].uri \in {r.uris[j] : j \in 1..n}
              /\ Count("Finished", r.handle) = 1 =>
                    Reported(r.handle) = SeqToBag(SubSeq(r.uris, 1, n))
    /\ \A i \in 1..Len(pending) :
          Len(pending[i].medias) <= Len(pending[i].uris)
          /\ Len(pending[i].medias) <= Len(pending[i].mime_types)

\* a call with two uris and one MIME type has returned a handle and its
\* batch has finished having reported the first uri alone
C15_Witness ==
    \E i \in 1..Len(replies) :
        /\ replies[i].result = "Ok"
        /\ replies[i].uris = <<UriA, UriHttp>>
        /\ replies[i].mime_types = <<"image/png">>
        /\ Count("Finished", replies[i].handle) = 1
        /\ Reported(replies[i].handle) = SetToBag({UriA})

(***************************************************************************)
(* C16.  As claimed: GetSupported returns the schemes ["file"] and as      *)
(* mime_types the union, without duplicates, of the MIME types the         *)
(* registered providers declare.                                           *)
(***************************************************************************)
C16_Declared(registered) ==
    UNION {Range(registered[k].mime_types) : k \in 1..Len(registered)}

C16_NoDuplicates(s) == \A i, j \in 1..Len(s) : s[i] = s[j] => i = j

C16_OneSchemeAndUnion ==
    /\ unit.op = "GetSupported" =>
          /\ unit.result.schemes = <<"file">>
          /\ Range(unit.result.mime_types) = C16_Declared(providers)
          /\ C16_NoDuplicates(unit.result.mime_types)
    /\ unit.op = "supported_mime_types" =>
          /\ Range(unit.result) = C16_Declared(unit.registered)
          /\ C16_NoDuplicates(unit.result)

(***************************************************************************)
(* C16, amended.  GetSupported returns two lists of the same length, one   *)
(* entry per MIME type that ImageProvider declares: every entry of schemes *)
(* is "file" and mime_types is that declaration, which has no duplicates.  *)
(* supported_mime_types of the registry is the sorted concatenation of the *)
(* providers' declarations: a MIME type is in it once per provider that    *)
(* declares it.                                                            *)
(***************************************************************************)
C16_SchemePerMimeType ==
    /\ unit.op = "GetSupported" =>
          /\ Len(unit.result.schemes) = Len(unit.result.mime_types)
          /\ \A k \in 1..Len(unit.result.schemes) : unit.result.schemes[k] = "file"
          /\ unit.result.mime_types = ImageProvider.mime_types
          /\ Range(unit.result.mime_types) = C16_Declared(providers)
          /\ C16_NoDuplicates(unit.result.mime_types)
    /\ unit.op = "supported_mime_types" =>
          /\ Range(unit.result) = C16_Declared(unit.registered)
          /\ \A m \in Range(unit.result) :
                Cardinality({i \in 1..Len(unit.result) : unit.result[i] = m})
                    = Cardinality({k \in 1..Len(unit.registered) :
                                      m \in Range(unit.registered[k].mime_types)})
          /\ \A i, j \in 1..Len(unit.result) :
                i < j => \E a, b \in 1..Len(MimeOrder) :
                            /\ a <= b
                            /\ MimeOrder[a] = unit.result[i]
                            /\ MimeOrder[b] = unit.result[j]

\* GetSupported has returned more than one MIME type
C16_Witness ==
    /\ unit.op = "GetSupported"
    /\ Len(unit.result.mime_types) > 1

(***************************************************************************)
(* C17.  The thumbnail of a w x h source under a flavor of dimension d     *)
(* fits within d x d, keeps the aspect ratio (to less than a pixel)        *)
(* and is no larger than the source in either dimension: 1x1 gives 1x1,    *)
(* NxN with N > d gives d x d, 512x256 under normal gives 128x64.          *)
(***************************************************************************)
C17_FitsAndNeverUpscales ==
    unit.op = "thumbnail" =>
        LET w == unit.w
            h == unit.h
            d == unit.d
            t == unit.result
        IN  /\ t.width <= d /\ t.height <= d
            /\ t.width >= 1 /\ t.height >= 1
            /\ t.width <= w /\ t.height <= h
            /\ \/ (t.width * h < (t.height + 1) * w
                   /\ (t.height - 1) * w < t.width * h)
               \/ (t.height * w < (t.width + 1) * h
                   /\ (t.width - 1) * h < t.height * w)
            /\ (w = 1 /\ h = 1) => (t.width = 1 /\ t.height = 1)
            /\ (w = h /\ w > d) => (t.width = d /\ t.height = d)
            /\ (w = 512 /\ h = 256 /\ d = 128) => (t.width = 128 /\ t.height = 64)

(***************************************************************************)
(* C18.  The bridge never deadlocks: no reachable state has the dispatch   *)
(* loop blocked forwarding a batch while the workers, or the batch loop,   *)
(* are blocked sending replies that only the dispatch loop can drain.      *)
(***************************************************************************)
C18_DispatchBlocked == dpc = "send_job" /\ Len(job_ch) = ChannelCap

C18_SendersBlocked ==
    /\ Len(result_ch) = ChannelCap
    /\ \/ mpc = "finished"
       \/ /\ mpc = "await"
          /\ \E c \in 1..Len(chunks) : chunks[c].pc # "done"
          /\ \A c \in 1..Len(chunks) :
                chunks[c].pc # "done" =>
                    \A i \in 1..Len(chunks[c].items) :
                        chunks[c].items[i].pc \in {"ok", "err"}

C18_NeverDeadlocks == ~(C18_DispatchBlocked /\ C18_SendersBlocked)

(***************************************************************************)
(* C19.  Of batch h, Started(h) is emitted before any item is handed to a  *)
(* worker.  As claimed, batches overlap: at some moment items of two       *)
(* handles are with the workers, neither batch being finished.             *)
(***************************************************************************)
C19_FinishedSent(h) ==
    \/ Count("Finished", h) >= 1
    \/ \E k \in 1..Len(result_ch) :
          result_ch[k].kind = "Finished" /\ result_ch[k].handle = h

\* items of batch h have been handed to the workers
C19_Handed(h) ==
    \/ \E o \in outcomes : o.handle = h
    \/ mjob # <<>> /\ mjob[1].handle = h /\ chunks # <<>>

C19_HandedHandles == {h \in Accepted : C19_Handed(h)}

C19_StartedFirst == \A h \in C19_HandedHandles : Count("Started", h) = 1

C19_Overlap ==
    \E h1 \in C19_HandedHandles, h2 \in C19_HandedHandles :
        h1 # h2 /\ ~C19_FinishedSent(h1) /\ ~C19_FinishedSent(h2)

C20_RenderedAgain ==
    \A o \in outcomes :
        LET dst == DestinationFilename(CachePath(o.flavor), o.uri)
            now == ThumbFsMetaFrom(source, o.uri, UrlToFilePath(o.uri).path)
            old == GetThumbOriginalMetadata(cache, inodes, dst)
        IN  /\ o.ok
            /\ o.hit => \E r \in outcomes : r.uri = o.uri /\ r.ok /\ ~r.hit
            /\ dst \in DOMAIN cache
            /\ Complete(inodes[cache[dst]])
            /\ old.ok
            /\ MetaEq(old.meta, now.meta)

\* the chunks of a list that carry one of the three keywords
ThumbKeywords == {"Thumb::URI", "Thumb::MTime", "Thumb::Size"}

\* the texts of the chunks under a keyword, in file order
TextsOf(text_chunks, keyword) ==
    LET Keep(c) == c.keyword = keyword
        kept == SelectSeq(text_chunks, Keep)
    IN  [i \in 1..Len(kept) |-> kept[i].text]

\* the last element of a sequence as an option
LastOf(q) == IF q = <<>> THEN <<>> ELSE <<q[Len(q)]>>

\* some Thumb::MTime chunk of the list parses as f64
C21_UsableMTime(text_chunks) ==
    \E i \in 1..Len(text_chunks) :
        /\ text_chunks[i].keyword = "Thumb::MTime"
        /\ ParseF64(text_chunks[i].text) # <<>>

\* the other chunks are ignored: the list without them reads the same
C21_OthersIgnored ==
    unit.op = "read" =>
        LET Ours(c) == c.keyword \in ThumbKeywords
        IN  unit.result = ReadMetadata(SelectSeq(unit.text_chunks, Ours))

\* C21 as written: get_thumb_original_metadata ignores every chunk but
\* Thumb::URI, Thumb::MTime and Thumb::Size, fails iff no Thumb::URI or no
\* usable Thumb::MTime is present, and gives size 0 when Thumb::Size is
\* absent.
C21_FailsIffMissing ==
    /\ C21_OthersIgnored
    /\ unit.op = "read" =>
          /\ ~unit.result.ok <=>
                \/ TextsOf(unit.text_chunks, "Thumb::URI") = <<>>
                \/ ~C21_UsableMTime(unit.text_chunks)
          /\ (unit.result.ok /\ TextsOf(unit.text_chunks, "Thumb::Size") = <<>>)
                => unit.result.meta.size = 0

(***************************************************************************)
(* C21.  get_thumb_original_metadata ignores every chunk but Thumb::URI,   *)
(* Thumb::MTime and Thumb::Size, and the last chunk of each keyword        *)
(* decides: it fails iff there is no Thumb::URI chunk, or no Thumb::MTime  *)
(* chunk, or the last Thumb::MTime chunk does not parse as f64; on success *)
(* uri is the last Thumb::URI text, mtime the last Thumb::MTime parsed,    *)
(* and size the last Thumb::Size parsed, or 0 when that chunk is absent or *)
(* does not parse.                                                         *)
(***************************************************************************)
C21_LastChunkDecides ==
    /\ C21_OthersIgnored
    /\ unit.op = "read" =>
          LET uri == LastOf(TextsOf(unit.text_chunks, "Thumb::URI"))
              mtime == LastOf(TextsOf(unit.text_chunks, "Thumb::MTime"))
              size == LastOf(TextsOf(unit.text_chunks, "Thumb::Size"))
          IN  /\ ~unit.result.ok <=>
                    (uri = <<>> \/ mtime = <<>> \/ ParseF64(mtime[1]) = <<>>)
              /\ unit.result.ok =>
                    /\ unit.result.meta.uri = uri[1]
                    /\ <<unit.result.meta.mtime_nsec>> = ParseF64(mtime[1])
                    /\ unit.result.meta.size =
                          IF size = <<>> \/ ParseU64(size[1]) = <<>> THEN 0
                          ELSE ParseU64(size[1])[1]

\* a file with a usable Thumb::MTime followed by one that does not parse,
\* and one without Thumb::Size, have been read
C21_Witness ==
    /\ unit.op = "read"
    /\ TextsOf(unit.text_chunks, "Thumb::URI") # <<>>
    /\ C21_UsableMTime(unit.text_chunks)
    /\ ~unit.result.ok
    /\ Len(unit.text_chunks) = 3

(***************************************************************************)
(* C22.  Writing a ThumbFullMeta m and reading the file back gives a       *)
(* record equal to m.fs under the ThumbFsMeta equality: the uri is the     *)
(* same, the size is the same when non-zero, and the mtime is the same to  *)
(* six fractional digits.                                                  *)
(***************************************************************************)
C22_SameToSixDigits ==
    unit.op = "roundtrip" =>
        /\ unit.ok
        /\ unit.result.uri = unit.m.uri
        /\ unit.m.size # 0 => unit.result.size = unit.m.size
        /\ FormatMTime(unit.result.mtime_nsec) = FormatMTime(unit.m.mtime_nsec)

C22_RoundTripEqual ==
    /\ C22_SameToSixDigits
    /\ unit.op = "roundtrip" => MetaEq(unit.result, unit.m)

(***************************************************************************)
(* C25.  The ThumbFsMeta equality is an equivalence relation over records  *)
(* with a finite mtime: reflexive, symmetric and transitive, sizes of 0    *)
(* included.                                                               *)
(***************************************************************************)
C25_ReflexiveSymmetric ==
    (unit.op = "chain" /\ NaN \notin {unit.a.mtime_nsec, unit.b.mtime_nsec,
                                       unit.c.mtime_nsec}) =>
        /\ unit.aa
        /\ unit.ab <=> unit.ba

C25_Equivalence ==
    /\ C25_ReflexiveSymmetric
    /\ (unit.op = "chain" /\ NaN \notin {unit.a.mtime_nsec, unit.b.mtime_nsec,
                                          unit.c.mtime_nsec}) =>
          ((unit.ab /\ unit.bc) => unit.ac)

(***************************************************************************)
(* C23.  Batches are served first-in first-out: for accepted handles       *)
(* h1 < h2, Started(h2) is emitted only after Started(h1) and Finished(h2) *)
(* only after Finished(h1).                                                *)
(***************************************************************************)
C23_Before(sig, h1, h2) ==
    \A j \in Pos(sig, h2) : \E i \in Pos(sig, h1) : i < j

C23_FirstInFirstOut ==
    \A h1 \in Accepted, h2 \in Accepted :
        U32Lt(h1, h2) =>
            /\ C23_Before("Started", h1, h2)
            /\ C23_Before("Finished", h1, h2)

(***************************************************************************)
(* C24.  A process_item call that fails leaves an existing destination of  *)
(* its URI and flavor as it was: the call has not written to the file at   *)
(* the destination, and when no call for the URI succeeded the destination *)
(* is still the file the daemon started with.                              *)
(***************************************************************************)
C24_FailureKeepsDestination ==
    \A o \in outcomes :
        (~o.ok /\ o.existed) =>
            LET dst == DestinationFilename(CachePath(o.flavor), o.uri)
            IN  /\ ~o.touched
                /\ dst \in DOMAIN cache
                /\ (\A r \in outcomes : r.uri = o.uri => ~r.ok) =>
                      inodes[cache[dst]] = CompleteFile(TextOf(StaleMeta(o.uri)))

====
